---- MODULE Spec2Model ----
(***************************************************************************)
(* HIMLoco training core: HIMRolloutStorage (rollout buffer, GAE, minibatch *)
(* generator) and the HIMPPO operations that drive it.                      *)
(*                                                                          *)
(* Tensors of shape [T, N, ...] are sequences (rows 1..T, Python index      *)
(* t is row t+1) of per-environment sequences (1..N).  The trailing         *)
(* feature dimensions of a tensor are one opaque scalar.  Real numbers are  *)
(* exact rationals <<num, den>>; float rounding is not modelled.            *)
(***************************************************************************)
EXTENDS Integers, Sequences, FiniteSets, TLC

VARIABLES
    storage,       \* HIMRolloutStorage fields (self.* of the storage object)
    transition,    \* HIMPPO.transition, the single in-flight Transition
    ppo,           \* HIMPPO fields: gamma, lam, the schedule and the learning rates
    actor_critic,  \* HIMActorCritic.distribution, the single-slot distribution
    gen,           \* the live mini_batch_generator frame (locals and position)
    batch,         \* the tuple most recently yielded by the generator
    yielded,       \* epoch, i and batch_idx of every batch the generator yielded
    call,          \* the last operation invoked and its arguments
    err,           \* "none", or the exception that propagated to the caller
    upd,           \* the frame of HIMPPO.update(): its locals, position and result
    runner,        \* the rollout loop that calls the optimizer: its phase and cycle
    obj            \* the object handed to update_class_from_dict

vars == <<storage, transition, ppo, actor_critic, gen, batch, yielded, call, err,
          upd, runner, obj>>

-----------------------------------------------------------------------------
(* Bounds of the model *)

MaxT == 3
MaxN == 2
MaxBatch == 4
MaxMiniBatches == 3
MaxEpochs == 2
MaxRepeat == 2

\* Python's None (tensors are non-empty sequences)
None == <<>>

-----------------------------------------------------------------------------
(* Exact rational arithmetic *)

Abs(x) == IF x < 0 THEN -x ELSE x

RECURSIVE GCD(_, _)
GCD(a, b) == IF b = 0 THEN a ELSE GCD(b, a % b)

Norm(n, d) ==
    LET g == GCD(Abs(n), Abs(d))
        s == IF d < 0 THEN -1 ELSE 1
    IN  <<(s * n) \div g, (s * d) \div g>>

R(i) == <<i, 1>>
Zero == R(0)
One == R(1)
\* sums over the least common denominator and products cancelled crosswise,
\* so that no intermediate value is larger than the result needs
RAdd(a, b) ==
    LET g == GCD(a[2], b[2])
    IN  Norm(a[1] * (b[2] \div g) + b[1] * (a[2] \div g), (a[2] \div g) * b[2])
RNeg(a) == <<0 - a[1], a[2]>>
RSub(a, b) == RAdd(a, RNeg(b))
RMul(a, b) ==
    LET g1 == GCD(Abs(a[1]), b[2])
        g2 == GCD(Abs(b[1]), a[2])
    IN  Norm((a[1] \div g1) * (b[1] \div g2), (a[2] \div g2) * (b[2] \div g1))
RInv(a) == IF a[1] < 0 THEN <<0 - a[2], 0 - a[1]>> ELSE <<a[2], a[1]>>
RDiv(a, b) == RMul(a, RInv(b))

-----------------------------------------------------------------------------
(* Tensor helpers *)

Envs(N) == 1..N

\* torch.zeros(T, N, ...) with the given zero element
Zeros(T, N, z) == [t \in 1..T |-> [n \in 1..N |-> z]]

\* tensor[row].copy_(src): in-place write of one row (row is the Python index)
CopyRow(tensor, row, src) == [tensor EXCEPT ![row + 1] = src]

\* An entry of the advantages tensor after normalisation stands for
\* num / (sqrt(var) + 1e-8); nan marks the value torch yields for 0/0.
Adv(num, var, nan) == [num |-> num, var |-> var, nan |-> nan]
AdvZero == Adv(Zero, Zero, FALSE)

-----------------------------------------------------------------------------
(* HIMRolloutStorage *)

EmptyTransition ==
    [observations |-> None, critic_observations |-> None, actions |-> None,
     rewards |-> None, dones |-> None, values |-> None,
     actions_log_prob |-> None, action_mean |-> None, action_sigma |-> None,
     next_critic_observations |-> None]

NewStorage(num_envs, num_transitions_per_env, has_privileged) ==
    LET T == num_transitions_per_env
        N == num_envs
    IN  [observations |-> Zeros(T, N, 0),
         privileged_observations |-> IF has_privileged THEN Zeros(T, N, 0) ELSE None,
         next_privileged_observations |-> IF has_privileged THEN Zeros(T, N, 0) ELSE None,
         rewards |-> Zeros(T, N, Zero),
         actions |-> Zeros(T, N, 0),
         dones |-> Zeros(T, N, 0),
         actions_log_prob |-> Zeros(T, N, 0),
         values |-> Zeros(T, N, Zero),
         returns |-> Zeros(T, N, Zero),
         advantages |-> Zeros(T, N, AdvZero),
         mu |-> Zeros(T, N, 0),
         sigma |-> Zeros(T, N, 0),
         num_transitions_per_env |-> T,
         num_envs |-> N,
         step |-> 0]

\* WriteRow without the final "self.step += 1"
WriteRowNoIncrement(st, tr) ==
    LET s == st.step
        has_priv == st.privileged_observations # None
    IN  [st EXCEPT
            !.observations = CopyRow(@, s, tr.observations),
            !.privileged_observations =
                IF has_priv THEN CopyRow(@, s, tr.critic_observations) ELSE @,
            !.next_privileged_observations =
                IF has_priv THEN CopyRow(@, s, tr.next_critic_observations) ELSE @,
            !.actions = CopyRow(@, s, tr.actions),
            !.rewards = CopyRow(@, s, tr.rewards),
            !.dones = CopyRow(@, s, tr.dones),
            !.values = CopyRow(@, s, tr.values),
            !.actions_log_prob = CopyRow(@, s, tr.actions_log_prob),
            !.mu = CopyRow(@, s, tr.action_mean),
            !.sigma = CopyRow(@, s, tr.action_sigma)]

\* The row copies of add_transitions, lines 97-108, for a populated transition
WriteRow(st, tr) ==
    LET s == st.step
        has_priv == st.privileged_observations # None
    IN  [st EXCEPT
            !.observations = CopyRow(@, s, tr.observations),
            !.privileged_observations =
                IF has_priv THEN CopyRow(@, s, tr.critic_observations) ELSE @,
            !.next_privileged_observations =
                IF has_priv THEN CopyRow(@, s, tr.next_critic_observations) ELSE @,
            !.actions = CopyRow(@, s, tr.actions),
            !.rewards = CopyRow(@, s, tr.rewards),
            !.dones = CopyRow(@, s, tr.dones),
            !.values = CopyRow(@, s, tr.values),
            !.actions_log_prob = CopyRow(@, s, tr.actions_log_prob),
            !.mu = CopyRow(@, s, tr.action_mean),
            !.sigma = CopyRow(@, s, tr.action_sigma),
            !.step = s + 1]

\* Transition.clear() that keeps the value estimates
ClearTransitionKeepsValues(tr) == [EmptyTransition EXCEPT !.values = tr.values]

\* Transition.clear(): self.__init__(), every field None again
ClearTransition(tr) == EmptyTransition

\* add_transitions with the overflow test written "step > T"
AddTransitionsOffByOne(st, tr) ==
    IF st.step > st.num_transitions_per_env
    THEN [storage |-> st, err |-> "AssertionError"]
    ELSE IF tr.observations = None
    THEN [storage |-> st, err |-> "TypeError"]
    ELSE [storage |-> WriteRow(st, tr), err |-> "none"]

\* add_transitions as a function of the storage: the storage it leaves and the
\* exception it raises.  A transition whose act() fields are None fails in the
\* first copy_ (line 97), before anything is written.
AddTransitions(st, tr) ==
    IF st.step >= st.num_transitions_per_env
    THEN [storage |-> st, err |-> "AssertionError"]
    ELSE IF tr.observations = None
    THEN [storage |-> st, err |-> "TypeError"]
    ELSE [storage |-> WriteRow(st, tr), err |-> "none"]

\* clear() that leaves step as it is
ClearKeepsStep(st) == st

\* clear()
Clear(st) == [st EXCEPT !.step = 0]

-----------------------------------------------------------------------------
(* HIMRolloutStorage.compute_returns *)

RECURSIVE SumSeq(_)
SumSeq(xs) == IF xs = <<>> THEN Zero ELSE RAdd(Head(xs), SumSeq(Tail(xs)))

\* tensor.flatten(0, 1): entry k (from 0) of the flat tensor is [k div N][k mod N]
Flatten(tensor) ==
    LET rows == Len(tensor)
        cols == Len(tensor[1])
    IN  [k \in 1..(rows * cols) |-> tensor[((k - 1) \div cols) + 1][((k - 1) % cols) + 1]]

\* lines 116-119 with the else branch lost: last_values at every step
NextValuesAlwaysLast(st, step, last_values) == last_values

\* lines 116-119
NextValues(st, step, last_values) ==
    IF step = st.num_transitions_per_env - 1
    THEN last_values
    ELSE st.values[step + 2]

\* line 120 with the done flags ignored
NotTerminalAlwaysOne(st, step) == [n \in Envs(st.num_envs) |-> One]

\* line 120: next_is_not_terminal = 1.0 - self.dones[step].float()
NotTerminal(st, step) ==
    [n \in Envs(st.num_envs) |-> RSub(One, R(st.dones[step + 1][n]))]

\* line 121
Delta(st, step, next_values, gamma) ==
    LET mask == NotTerminal(st, step)
    IN  [n \in Envs(st.num_envs) |->
            RSub(RAdd(st.rewards[step + 1][n],
                      RMul(RMul(mask[n], gamma), next_values[n])),
                 st.values[step + 1][n])]

\* line 122
Accumulate(st, step, delta, advantage, gamma, lam) ==
    LET mask == NotTerminal(st, step)
    IN  [n \in Envs(st.num_envs) |->
            RAdd(delta[n], RMul(RMul(RMul(mask[n], gamma), lam), advantage[n]))]

\* line 123 written "+=": the new row added onto the stored one
StoreReturnsAdding(returns, st, step, advantage) ==
    [returns EXCEPT ![step + 1] =
        [n \in Envs(st.num_envs) |->
            RAdd(@[n], RAdd(advantage[n], st.values[step + 1][n]))]]

\* line 123: self.returns[step] = advantage + self.values[step]
StoreReturns(returns, st, step, advantage) ==
    [returns EXCEPT ![step + 1] =
        [n \in Envs(st.num_envs) |-> RAdd(advantage[n], st.values[step + 1][n])]]

\* lines 115-123: the loop over reversed(range(T)), from Python index step
\* down to 0, with its running accumulator
RECURSIVE ReturnsLoop(_, _, _, _, _, _, _)
ReturnsLoop(st, returns, advantage, step, last_values, gamma, lam) ==
    IF step < 0
    THEN returns
    ELSE LET next_values == NextValues(st, step, last_values)
             delta == Delta(st, step, next_values, gamma)
             acc == Accumulate(st, step, delta, advantage, gamma, lam)
         IN  ReturnsLoop(st, StoreReturns(returns, st, step, acc), acc, step - 1,
                         last_values, gamma, lam)

\* lines 126-127: advantages = returns - values, then
\* (advantages - mean()) / (std() + 1e-8).  std() is the unbiased estimate,
\* a division by count - 1: of a single entry it is 0/0, which torch gives
\* as nan, and nan + 1e-8 and x / nan are nan.
Normalize(returns, values) ==
    LET raw == [t \in DOMAIN returns |->
                    [n \in DOMAIN returns[t] |-> RSub(returns[t][n], values[t][n])]]
        flat == Flatten(raw)
        count == Len(flat)
        mean == RDiv(SumSeq(flat), R(count))
        squares == [k \in DOMAIN flat |->
                        RMul(RSub(flat[k], mean), RSub(flat[k], mean))]
    IN  IF count - 1 = 0
        THEN [t \in DOMAIN raw |-> [n \in DOMAIN raw[t] |-> Adv(Zero, Zero, TRUE)]]
        ELSE LET var == RDiv(SumSeq(squares), R(count - 1))
             IN  [t \in DOMAIN raw |->
                    [n \in DOMAIN raw[t] |-> Adv(RSub(raw[t][n], mean), var, FALSE)]]

\* compute_returns whose loop runs over the rows below step only
ComputeReturnsBelowStep(st, last_values, gamma, lam) ==
    LET zero == [n \in Envs(st.num_envs) |-> Zero]
        returns == ReturnsLoop(st, st.returns, zero, st.step - 1,
                               last_values, gamma, lam)
    IN  [st EXCEPT !.returns = returns,
                   !.advantages = Normalize(returns, st.values)]

\* compute_returns(last_values, gamma, lam) as a function of the storage
ComputeReturns(st, last_values, gamma, lam) ==
    LET zero == [n \in Envs(st.num_envs) |-> Zero]
        returns == ReturnsLoop(st, st.returns, zero, st.num_transitions_per_env - 1,
                               last_values, gamma, lam)
    IN  [st EXCEPT !.returns = returns,
                   !.advantages = Normalize(returns, st.values)]

-----------------------------------------------------------------------------
(* HIMRolloutStorage.get_statistics *)

\* done.permute(1, 0, 2).reshape(-1, 1): flat entry k (from 0) is the flag of
\* environment k div T at step k mod T
FlatDones(dones) ==
    LET rows == Len(dones)
        cols == Len(dones[1])
    IN  [k \in 1..(rows * cols) |-> dones[((k - 1) % rows) + 1][((k - 1) \div rows) + 1]]

\* flat_dones.nonzero()[:, 0]: the indices (from 0) of the set flags, ascending
RECURSIVE NonZero(_, _)
NonZero(flat, k) ==
    IF k > Len(flat) THEN <<>>
    ELSE (IF flat[k] # 0 THEN <<k - 1>> ELSE <<>>) \o NonZero(flat, k + 1)

\* get_statistics with the flags written to the first row
GetStatisticsFirstRow(st) ==
    LET ones == [n \in Envs(st.num_envs) |-> 1]
        done == [st.dones EXCEPT ![1] = ones]
    IN  [storage |-> [st EXCEPT !.dones = done], result |-> <<Zero, Zero>>]

\* get_statistics(): done is the dones tensor itself, so "done[-1] = 1" writes
\* the last row of self.dones; the result is the mean distance between
\* consecutive set flags and the mean of the rewards
GetStatistics(st) ==
    LET ones == [n \in Envs(st.num_envs) |-> 1]
        done == [st.dones EXCEPT ![st.num_transitions_per_env] = ones]
        done_indices == <<-1>> \o NonZero(FlatDones(done), 1)
        trajectory_lengths ==
            [j \in 1..(Len(done_indices) - 1) |-> R(done_indices[j + 1] - done_indices[j])]
        rewards == Flatten(st.rewards)
    IN  [storage |-> [st EXCEPT !.dones = done],
         result |-> <<RDiv(SumSeq(trajectory_lengths), R(Len(trajectory_lengths))),
                      RDiv(SumSeq(rewards), R(Len(rewards)))>>]

-----------------------------------------------------------------------------
(* HIMRolloutStorage.mini_batch_generator *)

\* the values torch.randperm(n) can return: the orderings of 0..n-1
RandPerm(n) ==
    {p \in [1..n -> 0..(n - 1)] : \A a, b \in 1..n : a # b => p[a] # p[b]}

\* tensor[batch_idx] on a flattened tensor
Gather(flat, batch_idx) == [j \in 1..Len(batch_idx) |-> flat[batch_idx[j] + 1]]

\* lines 162-164 with the chunk offset lost: every minibatch takes the first chunk
BatchIdxFirstChunk(indices, i, mini_batch_size) == SubSeq(indices, 1, mini_batch_size)

\* lines 162-164: indices[i * mini_batch_size : (i + 1) * mini_batch_size]
BatchIdx(indices, i, mini_batch_size) ==
    SubSeq(indices, i * mini_batch_size + 1, (i + 1) * mini_batch_size)

\* lines 138-156, run by the first next(): the sizes, the one randperm call
\* and the flattened tensors.  The flattened tensors are views of the storage
\* tensors, except that compute_returns rebinds self.advantages, so the frame
\* keeps the advantages tensor it flattened.
GeneratorStart(st, g, perm) ==
    LET batch_size == st.num_envs * st.num_transitions_per_env
        mini_batch_size == batch_size \div g.num_mini_batches
    IN  [g EXCEPT !.started = TRUE,
                  !.mini_batch_size = mini_batch_size,
                  !.indices = perm,
                  !.randperm_calls = 1,
                  !.advantages = Flatten(st.advantages),
                  !.epoch = 0,
                  !.i = 0]

\* lines 166-177: the tuple yielded for batch_idx
MiniBatch(st, g, batch_idx) ==
    LET observations == Flatten(st.observations)
        has_priv == st.privileged_observations # None
        critic_observations ==
            IF has_priv THEN Flatten(st.privileged_observations) ELSE observations
        next_critic_observations ==
            IF has_priv THEN Flatten(st.next_privileged_observations) ELSE observations
    IN  [obs_batch |-> Gather(observations, batch_idx),
         critic_observations_batch |-> Gather(critic_observations, batch_idx),
         actions_batch |-> Gather(Flatten(st.actions), batch_idx),
         next_critic_observations_batch |-> Gather(next_critic_observations, batch_idx),
         target_values_batch |-> Gather(Flatten(st.values), batch_idx),
         advantages_batch |-> Gather(g.advantages, batch_idx),
         returns_batch |-> Gather(Flatten(st.returns), batch_idx),
         old_actions_log_prob_batch |-> Gather(Flatten(st.actions_log_prob), batch_idx),
         old_mu_batch |-> Gather(Flatten(st.mu), batch_idx),
         old_sigma_batch |-> Gather(Flatten(st.sigma), batch_idx)]

\* the size of the permutation the generator draws (line 140)
PermutationSize(st, num_mini_batches) ==
    num_mini_batches *
        ((st.num_envs * st.num_transitions_per_env) \div num_mini_batches)

-----------------------------------------------------------------------------
(* HIMActorCritic: the networks are opaque functions of their input *)

NoiseStd == 1
ActorMean(obs) == 2 * obs + 1
Critic(critic_obs) == critic_obs + 1

\* Normal(mean, std).log_prob(a), up to the additive constant: larger the
\* closer the action is to the mean
LogProb(a, mean, std) == 0 - ((a - mean) * (a - mean))

\* update_distribution(obs_history): Normal(mean, mean * 0. + self.std)
UpdateDistribution(obs) ==
    [mean |-> [n \in DOMAIN obs |-> ActorMean(obs[n])],
     stddev |-> [n \in DOMAIN obs |-> NoiseStd]]

\* evaluate(critic_observations)
Evaluate(critic_obs) == [n \in DOMAIN critic_obs |-> R(Critic(critic_obs[n]))]

-----------------------------------------------------------------------------
(* HIMPPO *)

\* line 111 with the masking product left out
BootstrapUnmasked(rewards, values, time_outs, gamma) ==
    [n \in DOMAIN rewards |-> RAdd(rewards[n], RMul(gamma, values[n]))]

\* line 111: rewards += gamma * squeeze(values * time_outs.unsqueeze(1), 1)
Bootstrap(rewards, values, time_outs, gamma) ==
    [n \in DOMAIN rewards |->
        RAdd(rewards[n], RMul(gamma, RMul(values[n], R(time_outs[n]))))]

-----------------------------------------------------------------------------
(* legged_gym.utils.helpers.update_class_from_dict *)

\* Python values: None, a primitive, an object with attributes, a dict.  The
\* attributes of an object (its __dict__) and the items of a dict are
\* sequences of <<name, value>> in insertion order.
PyNone == [kind |-> "none", v |-> 0, items |-> <<>>]
Prim(i) == [kind |-> "prim", v |-> i, items |-> <<>>]
Object(attrs) == [kind |-> "obj", v |-> 0, items |-> attrs]
Dict(items) == [kind |-> "dict", v |-> 0, items |-> items]

Keys(items) == {items[k][1] : k \in DOMAIN items}
Lookup(items, name) == (CHOOSE k \in DOMAIN items : items[k][1] = name)

\* getattr(obj, name, None) and dict[name]
GetItem(items, name) ==
    IF name \in Keys(items) THEN items[Lookup(items, name)][2] ELSE PyNone

\* setattr(obj, name, value): in place when the name is there, else appended
SetItem(items, name, value) ==
    IF name \in Keys(items)
    THEN [items EXCEPT ![Lookup(items, name)] = <<name, value>>]
    ELSE Append(items, <<name, value>>)

\* n.startswith("__") and n.endswith("__"), for the names of the model
Dunder(name) == name \in {"__doc__"}

\* is_primitive_type: not hasattr(obj, '__dict__')
IsPrimitiveType(value) == value.kind # "obj"

\* lines 64-67: every attribute whose name is not a dunder and not a key of
\* dict_ is deleted; strict is not read
RemoveAbsent(attrs, dict_, strict) ==
    SelectSeq(attrs, LAMBDA a : Dunder(a[1]) \/ a[1] \in Keys(dict_.items))

RECURSIVE UpdateClassFromDict(_, _, _)
RECURSIVE SetItems(_, _, _)

\* lines 68-77: the loop over dict_.items() from item i on.  A dict value for
\* a missing or primitive attribute is copied in and then handed, as obj, to
\* update_class_from_dict, which fails on its __dict__.
SetItems(o, dict_, i) ==
    IF i > Len(dict_.items)
    THEN [obj |-> o, err |-> "none"]
    ELSE LET key == dict_.items[i][1]
             val == dict_.items[i][2]
             attr == GetItem(o.items, key)
         IN  IF attr.kind = "none" \/ IsPrimitiveType(attr)
             THEN IF val.kind = "dict"
                  THEN LET set == [o EXCEPT !.items = SetItem(@, key, val)]
                           sub == UpdateClassFromDict(val, val, FALSE)
                       IN  IF sub.err # "none"
                           THEN [obj |-> set, err |-> sub.err]
                           ELSE SetItems([set EXCEPT !.items = SetItem(@, key, sub.obj)],
                                         dict_, i + 1)
                  ELSE SetItems([o EXCEPT !.items = SetItem(@, key, val)], dict_, i + 1)
             ELSE LET sub == UpdateClassFromDict(attr, val, FALSE)
                      set == [o EXCEPT !.items = SetItem(@, key, sub.obj)]
                  IN  IF sub.err # "none"
                      THEN [obj |-> set, err |-> sub.err]
                      ELSE SetItems(set, dict_, i + 1)

\* update_class_from_dict(obj, dict_, strict): the object it leaves and the
\* exception it raises.  obj.__dict__ fails on a value without attributes;
\* "in dict_" and dict_.items() fail on a value that is not a dict.
UpdateClassFromDict(o, dict_, strict) ==
    IF o.kind # "obj"
    THEN [obj |-> o, err |-> "AttributeError"]
    ELSE IF dict_.kind # "dict"
    THEN [obj |-> o,
          err |-> IF \E k \in DOMAIN o.items : ~Dunder(o.items[k][1])
                  THEN "TypeError" ELSE "AttributeError"]
    ELSE SetItems([o EXCEPT !.items = RemoveAbsent(@, dict_, strict)], dict_, 1)

-----------------------------------------------------------------------------
(* Inputs *)

Shapes == {s \in (1..MaxT) \X (1..MaxN) : s[1] * s[2] <= MaxBatch}

\* complete transitions handed to add_transitions directly
TransitionInputs(N) ==
    {[observations |-> [n \in Envs(N) |-> o + n],
      critic_observations |-> [n \in Envs(N) |-> o + 2 * n],
      actions |-> [n \in Envs(N) |-> 3 * o + n],
      rewards |-> [n \in Envs(N) |-> R(r)],
      dones |-> d,
      values |-> [n \in Envs(N) |-> R(o + 1)],
      actions_log_prob |-> [n \in Envs(N) |-> 0 - o - n],
      action_mean |-> [n \in Envs(N) |-> 3 * o],
      action_sigma |-> [n \in Envs(N) |-> 1],
      next_critic_observations |-> [n \in Envs(N) |-> o + 2 * n + 1]]
     : o \in {1, 5}, r \in {0, 1}, d \in [Envs(N) -> {0, 1}]}


\* what act receives: per-environment (obs, privileged obs) from the simulator
\* and the draw of distribution.sample()
ActInputs(N) ==
    {[obs |-> [n \in Envs(N) |-> 10 + n], critic_obs |-> [n \in Envs(N) |-> n - 1],
      noise |-> [n \in Envs(N) |-> 0]],
     [obs |-> [n \in Envs(N) |-> 11], critic_obs |-> [n \in Envs(N) |-> 1],
      noise |-> [n \in Envs(N) |-> 1]]}

\* what the simulator returns from a step: rewards, dones, infos and the next
\* privileged observation.  infos has no time_outs key, or flags no
\* environment, or flags the last one, or flags all of them.
StepInputs(N) ==
    {[rewards |-> [n \in Envs(N) |-> n], dones |-> [n \in Envs(N) |-> 0],
      infos |-> <<>>, next_critic_obs |-> [n \in Envs(N) |-> n]],
     [rewards |-> [n \in Envs(N) |-> 0],
      dones |-> [n \in Envs(N) |-> IF n = 1 THEN 1 ELSE 0],
      infos |-> [time_outs |-> [n \in Envs(N) |-> 0]],
      next_critic_obs |-> [n \in Envs(N) |-> 0]],
     [rewards |-> [n \in Envs(N) |-> n],
      dones |-> [n \in Envs(N) |-> IF n = N THEN 1 ELSE 0],
      infos |-> [time_outs |-> [n \in Envs(N) |-> IF n = N THEN 1 ELSE 0]],
      next_critic_obs |-> [n \in Envs(N) |-> 1]],
     [rewards |-> [n \in Envs(N) |-> 1], dones |-> [n \in Envs(N) |-> 1],
      infos |-> [time_outs |-> [n \in Envs(N) |-> 1]],
      next_critic_obs |-> [n \in Envs(N) |-> 0]]}

-----------------------------------------------------------------------------
(* State and operations *)

T == storage.num_transitions_per_env
N == storage.num_envs

\* no generator object
NoGen ==
    [active |-> FALSE, started |-> FALSE, done |-> FALSE,
     num_mini_batches |-> 0, num_epochs |-> 0, mini_batch_size |-> 0,
     indices |-> <<>>, advantages |-> <<>>, epoch |-> 0, i |-> 0,
     batch_idx |-> <<>>, randperm_calls |-> 0]
NoCall == [op |-> "init", n |-> 0]

\* HIMPPO.__init__: the keyword defaults for the schedule, the learning rate
\* (also given to the Adam optimizer, optimizer_lr), the epochs and the
\* minibatches; the storage is built by init_storage
DefaultPPO ==
    [gamma |-> <<1, 2>>, lam |-> <<1, 2>>,
     num_learning_epochs |-> 1, num_mini_batches |-> 1,
     learning_rate |-> <<1, 1000>>, optimizer_lr |-> <<1, 1000>>,
     schedule |-> "fixed", desired_kl |-> <<1, 100>>]
PPOConfigs == {[DefaultPPO EXCEPT !.gamma = g] : g \in {<<1, 2>>, One}}

\* update() is not running
NoUpdate ==
    [pc |-> "idle", mean_value_loss |-> Zero, mean_surrogate_loss |-> Zero,
     mean_estimation_loss |-> Zero, mean_swap_loss |-> Zero,
     estimation_loss |-> None, swap_loss |-> None, kl_mean |-> None,
     iterations |-> 0, estimator_updates |-> 0, optimizer_steps |-> 0,
     losses |-> <<>>, events |-> <<>>, result |-> None]

\* the rollout loop is not running
NoRunner == [pc |-> "none", i |-> 0]

InitOptimizer(st, configs) ==
    /\ storage = st
    /\ transition = EmptyTransition
    /\ ppo \in configs
    /\ actor_critic = [distribution |-> None]
    /\ gen = NoGen
    /\ batch = None
    /\ yielded = <<>>
    /\ call = NoCall
    /\ err = "none"
    /\ upd = NoUpdate

InitWith(st, configs) ==
    InitOptimizer(st, configs) /\ runner = NoRunner /\ obj = None

\* storage.add_transitions(tr), called on the storage directly
StorageAddTransitions(tr) ==
    /\ err = "none"
    /\ LET res == AddTransitions(storage, tr)
       IN  /\ storage' = res.storage
           /\ err' = res.err
    /\ call' = [op |-> "add_transitions", transition |-> tr, n |-> 1]
    /\ UNCHANGED <<transition, ppo, actor_critic, gen, batch, yielded, upd>>

\* storage.clear()
StorageClear ==
    /\ err = "none"
    /\ storage' = Clear(storage)
    /\ call' = [op |-> "clear", n |-> 1]
    /\ UNCHANGED <<transition, ppo, actor_critic, gen, batch, yielded, err, upd>>


\* storage.get_statistics(); the call is recorded with the dones tensor it
\* found and the pair it returned
StorageGetStatistics ==
    /\ err = "none"
    /\ LET res == GetStatistics(storage)
       IN  /\ storage' = res.storage
           /\ call' = [op |-> "get_statistics", dones |-> storage.dones,
                       result |-> res.result, n |-> 1]
    /\ UNCHANGED <<transition, ppo, actor_critic, gen, batch, yielded, err, upd>>

\* HIMPPO.act(obs, critic_obs); noise is the draw of distribution.sample()
Act(obs, critic_obs, noise) ==
    /\ err = "none"
    /\ LET dist == UpdateDistribution(obs)
           actions == [n \in DOMAIN obs |-> dist.mean[n] + noise[n] * dist.stddev[n]]
       IN  /\ actor_critic' = [actor_critic EXCEPT !.distribution = dist]
           /\ transition' =
                [transition EXCEPT
                    !.actions = actions,
                    !.values = Evaluate(critic_obs),
                    !.actions_log_prob =
                        [n \in DOMAIN obs |->
                            LogProb(actions[n], dist.mean[n], dist.stddev[n])],
                    !.action_mean = dist.mean,
                    !.action_sigma = dist.stddev,
                    !.observations = obs,
                    !.critic_observations = critic_obs]
    /\ call' = [op |-> "act", obs |-> obs, critic_obs |-> critic_obs, n |-> 1]
    /\ UNCHANGED <<storage, ppo, gen, batch, yielded, err, upd>>

\* HIMPPO.process_env_step(rewards, dones, infos, next_critic_obs).  An
\* exception leaves the Transition as assigned so far and the storage as it was.
ProcessEnvStep(rewards, dones, infos, next_critic_obs) ==
    /\ err = "none"
    /\ LET recorded ==
                [transition EXCEPT
                    !.next_critic_observations = next_critic_obs,
                    !.rewards = [n \in DOMAIN rewards |-> R(rewards[n])],
                    !.dones = dones]
           has_time_outs == "time_outs" \in DOMAIN infos
           no_values == has_time_outs /\ transition.values = None
           bootstrapped ==
                IF has_time_outs /\ ~no_values
                THEN [recorded EXCEPT !.rewards =
                        Bootstrap(@, transition.values, infos.time_outs, ppo.gamma)]
                ELSE recorded
           res == AddTransitions(storage, bootstrapped)
       IN  IF no_values
           THEN /\ transition' = recorded
                /\ err' = "TypeError"
                /\ UNCHANGED storage
           ELSE /\ storage' = res.storage
                /\ err' = res.err
                /\ transition' =
                     IF res.err = "none" THEN ClearTransition(bootstrapped)
                     ELSE bootstrapped
    /\ call' = [op |-> "process_env_step", rewards |-> rewards, dones |-> dones,
                infos |-> infos, next_critic_obs |-> next_critic_obs, n |-> 1]
    /\ UNCHANGED <<ppo, actor_critic, gen, batch, yielded, upd>>

\* storage.compute_returns(last_values, gamma, lam); n counts the calls made
\* in a row with the same arguments.  A call that follows a compute_returns
\* call repeats it (any other second call starts from the same rewards, dones
\* and values as the first calls explored).
SameReturnsCall(last_values, gamma, lam) ==
    /\ call.op = "compute_returns"
    /\ call.last_values = last_values /\ call.gamma = gamma /\ call.lam = lam

StorageComputeReturns(last_values, gamma, lam) ==
    /\ err = "none"
    /\ call.op = "compute_returns" =>
            SameReturnsCall(last_values, gamma, lam) /\ call.n < MaxRepeat
    /\ storage' = ComputeReturns(storage, last_values, gamma, lam)
    /\ call' = [op |-> "compute_returns", last_values |-> last_values,
                gamma |-> gamma, lam |-> lam,
                n |-> IF SameReturnsCall(last_values, gamma, lam)
                      THEN call.n + 1 ELSE 1]
    /\ UNCHANGED <<transition, ppo, actor_critic, gen, batch, yielded, err, upd>>

\* HIMPPO.compute_returns(last_critic_obs): the critic's values of the last
\* observation, and storage.compute_returns with the optimizer's gamma and lam
PPOComputeReturns(last_critic_obs) ==
    /\ err = "none"
    /\ LET last_values == Evaluate(last_critic_obs)
       IN  /\ storage' = ComputeReturns(storage, last_values, ppo.gamma, ppo.lam)
           /\ call' = [op |-> "compute_returns", last_values |-> last_values,
                       gamma |-> ppo.gamma, lam |-> ppo.lam, n |-> 1]
    /\ UNCHANGED <<transition, ppo, actor_critic, gen, batch, yielded, err, upd>>

\* storage.mini_batch_generator(num_mini_batches, num_epochs): a generator
\* object whose body has not started
StorageMiniBatchGenerator(num_mini_batches, num_epochs) ==
    /\ err = "none"
    /\ ~gen.active \/ gen.done
    /\ gen' = [NoGen EXCEPT !.active = TRUE,
                            !.num_mini_batches = num_mini_batches,
                            !.num_epochs = num_epochs]
    /\ batch' = None
    /\ yielded' = <<>>
    /\ call' = [op |-> "mini_batch_generator", num_mini_batches |-> num_mini_batches,
                num_epochs |-> num_epochs, n |-> 1]
    /\ UNCHANGED <<storage, transition, ppo, actor_critic, err, upd>>

\* next(generator): runs the body to its next yield, or to its end
\* (StopIteration).  perm is what torch.randperm returns when the body starts.
GeneratorNext(perm) ==
    /\ err = "none"
    /\ gen.active /\ ~gen.done
    /\ LET g == IF gen.started THEN gen ELSE GeneratorStart(storage, gen, perm)
       IN  IF g.epoch < g.num_epochs
           THEN LET batch_idx == BatchIdx(g.indices, g.i, g.mini_batch_size)
                    last == g.i + 1 = g.num_mini_batches
                IN  /\ batch' = MiniBatch(storage, g, batch_idx)
                    /\ yielded' = Append(yielded,
                            [epoch |-> g.epoch, i |-> g.i, batch_idx |-> batch_idx])
                    /\ gen' = [g EXCEPT !.batch_idx = batch_idx,
                                        !.i = IF last THEN 0 ELSE g.i + 1,
                                        !.epoch = IF last THEN g.epoch + 1 ELSE g.epoch]
           ELSE /\ gen' = [g EXCEPT !.done = TRUE]
                /\ UNCHANGED <<batch, yielded>>
    /\ call' = [op |-> "next", n |-> 1]
    /\ UNCHANGED <<storage, transition, ppo, actor_critic, err, upd>>

-----------------------------------------------------------------------------
(* HIMPPO.update *)

\* a float that is not a number; every comparison with it is false
NaN == <<0, 0>>
RLess(a, b) ==
    /\ a[2] # 0 /\ b[2] # 0
    /\ LET g == GCD(a[2], b[2])
       IN  a[1] * (b[2] \div g) < b[1] * (a[2] \div g)

\* Python's max(a, b) and min(a, b): a, unless b is larger (smaller)
PyMax(a, b) == IF RLess(a, b) THEN b ELSE a
PyMin(a, b) == IF RLess(b, a) THEN b ELSE a

\* the literals 1e-5, 1e-2 and 1.5 of lines 151 and 153
MinLearningRate == <<1, 100000>>
MaxLearningRate == <<1, 100>>
LearningRateFactor == <<3, 2>>

\* lines 150-153 with the two clamps left out
AdjustLearningRateUnclamped(learning_rate, kl_mean, desired_kl) ==
    IF RLess(RMul(desired_kl, R(2)), kl_mean)
    THEN RDiv(learning_rate, LearningRateFactor)
    ELSE IF RLess(kl_mean, RDiv(desired_kl, R(2))) /\ RLess(Zero, kl_mean)
    THEN RMul(learning_rate, LearningRateFactor)
    ELSE learning_rate

\* lines 150-153: the learning rate after the test of kl_mean
AdjustLearningRate(learning_rate, kl_mean, desired_kl) ==
    IF RLess(RMul(desired_kl, R(2)), kl_mean)
    THEN PyMax(MinLearningRate, RDiv(learning_rate, LearningRateFactor))
    ELSE IF RLess(kl_mean, RDiv(desired_kl, R(2))) /\ RLess(Zero, kl_mean)
    THEN PyMin(MaxLearningRate, RMul(learning_rate, LearningRateFactor))
    ELSE learning_rate

\* line 144
Adaptive(p) == p.desired_kl # None /\ p.schedule = "adaptive"

\* lines 144-156: the adjusted rate is kept in self.learning_rate and written
\* to every param group of the policy optimizer
ScheduleStep(p, kl_mean) ==
    IF Adaptive(p)
    THEN LET lr == AdjustLearningRate(p.learning_rate, kl_mean, p.desired_kl)
         IN  [p EXCEPT !.learning_rate = lr, !.optimizer_lr = lr]
    ELSE p

\* lines 146-148: kl_mean is computed, and bound, only under the adaptive schedule
Measured(u, p, kl_mean) == [u EXCEPT !.kl_mean = IF Adaptive(p) THEN kl_mean ELSE @]

\* a call made by the loop body, with the learning rate it is made with
Event(name, lr) == [name |-> name, lr |-> lr]

\* the number of calls named name among events
Calls(events, name) == Cardinality({k \in DOMAIN events : events[k].name = name})

\* the calls of one iteration, kept in their order and counted
Logged(u, events) ==
    [u EXCEPT !.events = events,
              !.estimator_updates = @ + Calls(events, "estimator.update"),
              !.optimizer_steps = @ + Calls(events, "optimizer.step")]

\* lines 186-189
Accumulated(u, losses) ==
    [u EXCEPT !.mean_value_loss = RAdd(@, losses.value_loss),
              !.mean_surrogate_loss = RAdd(@, losses.surrogate_loss),
              !.mean_estimation_loss = RAdd(@, losses.estimation_loss),
              !.mean_swap_loss = RAdd(@, losses.swap_loss),
              !.estimation_loss = losses.estimation_loss,
              !.swap_loss = losses.swap_loss,
              !.iterations = @ + 1,
              !.losses = Append(@, losses)]

\* the loop body with the estimator update moved above the KL test
UpdateBodyEstimatorFirst(p, u, kl_mean, losses) ==
    LET scheduled == ScheduleStep(p, kl_mean)
    IN  [ppo |-> scheduled,
         upd |-> Logged(Accumulated(Measured(u, p, kl_mean), losses),
                    <<Event("estimator.update", p.learning_rate)>> \o
                    (IF Adaptive(p)
                     THEN <<Event("learning_rate", scheduled.learning_rate)>>
                     ELSE <<>>) \o
                    <<Event("zero_grad", scheduled.optimizer_lr),
                      Event("backward", scheduled.optimizer_lr),
                      Event("clip_grad_norm_", scheduled.optimizer_lr),
                      Event("optimizer.step", scheduled.optimizer_lr)>>)]

\* lines 133-189, the body of the loop for one minibatch.  kl_mean is the mean
\* KL between the stored and the current policy on the batch; losses are the
\* value and surrogate losses of the batch and the two losses the estimator's
\* update returns.  events lists the calls of this iteration in their order.
UpdateBody(p, u, kl_mean, losses) ==
    LET scheduled == ScheduleStep(p, kl_mean)
    IN  [ppo |-> scheduled,
         upd |-> Logged(Accumulated(Measured(u, p, kl_mean), losses),
                    (IF Adaptive(p)
                     THEN <<Event("learning_rate", scheduled.learning_rate)>>
                     ELSE <<>>) \o
                    <<Event("estimator.update", scheduled.learning_rate),
                      Event("zero_grad", scheduled.optimizer_lr),
                      Event("backward", scheduled.optimizer_lr),
                      Event("clip_grad_norm_", scheduled.optimizer_lr),
                      Event("optimizer.step", scheduled.optimizer_lr)>>)]

\* lines 191-198 without the call of storage.clear()
UpdateFinishNoClear(p, u, st) ==
    LET num_updates == R(p.num_learning_epochs * p.num_mini_batches)
    IN  [upd |-> [u EXCEPT
                    !.pc = "done",
                    !.mean_value_loss = RDiv(@, num_updates),
                    !.mean_surrogate_loss = RDiv(@, num_updates),
                    !.mean_estimation_loss = RDiv(@, num_updates),
                    !.mean_swap_loss = RDiv(@, num_updates),
                    !.result = <<RDiv(u.mean_value_loss, num_updates),
                                 RDiv(u.mean_surrogate_loss, num_updates),
                                 u.estimation_loss, u.swap_loss>>],
         storage |-> st]

\* lines 191-198, after the loop: the sums divided by num_updates, the storage
\* cleared, and the tuple returned: the two means, and the estimation and swap
\* losses of the last minibatch
UpdateFinish(p, u, st) ==
    LET num_updates == R(p.num_learning_epochs * p.num_mini_batches)
    IN  [upd |-> [u EXCEPT
                    !.pc = "done",
                    !.mean_value_loss = RDiv(@, num_updates),
                    !.mean_surrogate_loss = RDiv(@, num_updates),
                    !.mean_estimation_loss = RDiv(@, num_updates),
                    !.mean_swap_loss = RDiv(@, num_updates),
                    !.result = <<RDiv(u.mean_value_loss, num_updates),
                                 RDiv(u.mean_surrogate_loss, num_updates),
                                 u.estimation_loss, u.swap_loss>>],
         storage |-> Clear(st)]

\* update() up to its loop, lines 126-131: the sums at 0 and the generator
\* made.  n counts the update() calls made in a row.
Update ==
    /\ err = "none"
    /\ upd.pc # "loop"
    /\ call.op = "update" => call.n < MaxRepeat
    /\ upd' = [NoUpdate EXCEPT !.pc = "loop"]
    /\ gen' = [NoGen EXCEPT !.active = TRUE,
                            !.num_mini_batches = ppo.num_mini_batches,
                            !.num_epochs = ppo.num_learning_epochs]
    /\ batch' = None
    /\ yielded' = <<>>
    /\ call' = [op |-> "update", n |-> IF call.op = "update" THEN call.n + 1 ELSE 1]
    /\ UNCHANGED <<storage, transition, ppo, actor_critic, err>>

\* one turn of the for loop of update() in which the generator yields: the
\* batch is taken from the generator and the body runs on it
UpdateMiniBatch(perm, kl_mean, losses) ==
    /\ err = "none"
    /\ upd.pc = "loop"
    /\ LET g == IF gen.started THEN gen ELSE GeneratorStart(storage, gen, perm)
           batch_idx == BatchIdx(g.indices, g.i, g.mini_batch_size)
           last == g.i + 1 = g.num_mini_batches
           b == MiniBatch(storage, g, batch_idx)
           body == UpdateBody(ppo, upd, kl_mean, losses)
       IN  /\ g.epoch < g.num_epochs
           /\ batch' = b
           /\ yielded' = Append(yielded,
                    [epoch |-> g.epoch, i |-> g.i, batch_idx |-> batch_idx])
           /\ gen' = [g EXCEPT !.batch_idx = batch_idx,
                               !.i = IF last THEN 0 ELSE g.i + 1,
                               !.epoch = IF last THEN g.epoch + 1 ELSE g.epoch]
           /\ actor_critic' =
                [actor_critic EXCEPT !.distribution = UpdateDistribution(b.obs_batch)]
           /\ ppo' = body.ppo
           /\ upd' = body.upd
    /\ UNCHANGED <<storage, transition, call, err>>

\* the turn of the for loop in which the generator is exhausted, and the rest
\* of update()
UpdateReturn ==
    /\ err = "none"
    /\ upd.pc = "loop"
    /\ gen.started /\ gen.epoch >= gen.num_epochs
    /\ gen' = [gen EXCEPT !.done = TRUE]
    /\ LET finish == UpdateFinish(ppo, upd, storage)
       IN  /\ upd' = finish.upd
           /\ storage' = finish.storage
    /\ UNCHANGED <<transition, ppo, actor_critic, batch, yielded, call, err>>

\* update_class_from_dict(obj, dict_, strict); the call is recorded with the
\* object it was given
UpdateClassFromDictCall(dict_, strict) ==
    /\ err = "none"
    /\ LET res == UpdateClassFromDict(obj, dict_, strict)
       IN  /\ obj' = res.obj
           /\ err' = res.err
    /\ call' = [op |-> "update_class_from_dict", obj |-> obj, dict_ |-> dict_,
                strict |-> strict, n |-> 1]
    /\ UNCHANGED <<storage, transition, ppo, actor_critic, gen, batch, yielded,
                   upd, runner>>

-----------------------------------------------------------------------------
(* The storage driven through its own interface *)

InitStorage ==
    \E s \in Shapes, p \in BOOLEAN : InitWith(NewStorage(s[2], s[1], p), {DefaultPPO})

NextStorage ==
    /\ \/ \E tr \in TransitionInputs(storage.num_envs) : StorageAddTransitions(tr)
       \/ StorageClear
    /\ UNCHANGED <<runner, obj>>

SpecStorage == InitStorage /\ [][NextStorage]_vars

-----------------------------------------------------------------------------
(* The optimizer driven by the rollout loop *)

Init ==
    \E s \in Shapes : InitWith(NewStorage(s[2], s[1], TRUE), PPOConfigs)

Next ==
    /\ \/ \E a \in ActInputs(N) : Act(a.obs, a.critic_obs, a.noise)
       \/ \E e \in StepInputs(N) :
             ProcessEnvStep(e.rewards, e.dones, e.infos, e.next_critic_obs)
       \/ StorageClear
    /\ UNCHANGED <<runner, obj>>

Spec == Init /\ [][Next]_vars

-----------------------------------------------------------------------------
(* compute_returns applied to filled buffers *)

\* a buffer after T add_transitions calls that stored dones d and values v;
\* the reward of step t and environment n is 10 * t + n, so that every cell
\* holds a reward of its own
FilledStorage(shape, d, v) ==
    [NewStorage(shape[2], shape[1], TRUE) EXCEPT
        !.rewards = [t \in 1..shape[1] |-> [n \in 1..shape[2] |-> R(10 * t + n)]],
        !.dones = d,
        !.values = [t \in 1..shape[1] |-> [n \in 1..shape[2] |-> R(v[t][n])]],
        !.step = shape[1]]

Cells(shape) == [1..shape[1] -> [1..shape[2] -> {0, 1}]]

GammaInputs == {<<1, 2>>, One}
LamInputs == {Zero, <<1, 2>>, One}
LastValueInputs(n) == [Envs(n) -> {Zero, One}]

InitGAE ==
    \E s \in Shapes :
        \E d \in Cells(s), v \in Cells(s) :
            InitWith(FilledStorage(s, d, v), {DefaultPPO})

NextGAE ==
    /\ \E lv \in LastValueInputs(N), g \in GammaInputs, l \in LamInputs :
          StorageComputeReturns(lv, g, l)
    /\ UNCHANGED <<runner, obj>>

SpecGAE == InitGAE /\ [][NextGAE]_vars

-----------------------------------------------------------------------------
(* get_statistics applied to filled buffers *)

NextStatistics ==
    /\ \/ StorageGetStatistics
       \/ StorageClear
    /\ UNCHANGED <<runner, obj>>

SpecStatistics == InitGAE /\ [][NextStatistics]_vars

-----------------------------------------------------------------------------
(* mini_batch_generator applied to buffers that are ready *)

\* a full buffer whose cells are told apart by what they hold, after
\* compute_returns
ReadyStorage(shape, has_privileged) ==
    LET cell(k) == [t \in 1..shape[1] |-> [n \in 1..shape[2] |-> k * (10 * t + n)]]
        filled ==
            [NewStorage(shape[2], shape[1], has_privileged) EXCEPT
                !.observations = cell(1),
                !.privileged_observations = IF has_privileged THEN cell(2) ELSE None,
                !.next_privileged_observations = IF has_privileged THEN cell(3) ELSE None,
                !.actions = cell(4),
                !.rewards = [t \in 1..shape[1] |-> [n \in 1..shape[2] |-> R(t)]],
                !.values = [t \in 1..shape[1] |-> [n \in 1..shape[2] |-> R(n)]],
                !.actions_log_prob = cell(-1),
                !.mu = cell(5),
                !.sigma = cell(6),
                !.step = shape[1]]
    IN  ComputeReturns(filled, [n \in 1..shape[2] |-> Zero], <<1, 2>>, <<1, 2>>)

InitBatch ==
    \E s \in Shapes, p \in BOOLEAN : InitWith(ReadyStorage(s, p), {DefaultPPO})

NextBatch ==
    /\ \/ \E m \in 1..MaxMiniBatches, e \in 1..MaxEpochs : StorageMiniBatchGenerator(m, e)
       \/ /\ gen.active
          /\ \E perm \in IF gen.started
                          THEN {<<>>}
                          ELSE RandPerm(PermutationSize(storage, gen.num_mini_batches)) :
                GeneratorNext(perm)
    /\ UNCHANGED <<runner, obj>>

SpecBatch == InitBatch /\ [][NextBatch]_vars

-----------------------------------------------------------------------------
(* update() applied to buffers that are ready *)

\* two of the orderings torch.randperm(n) can return: ascending and descending
PermInputs(n) == {[k \in 1..n |-> k - 1], [k \in 1..n |-> n - k]}

\* the losses of a minibatch: value, surrogate, and the estimator's two
LossInputs ==
    {[value_loss |-> R(1), surrogate_loss |-> R(2),
      estimation_loss |-> R(3), swap_loss |-> R(4)],
     [value_loss |-> R(3), surrogate_loss |-> R(-1),
      estimation_loss |-> R(1), swap_loss |-> R(2)]}

\* the optimizer built with num_mini_batches = m and num_learning_epochs = e
SweepConfigs ==
    {[DefaultPPO EXCEPT !.num_mini_batches = m, !.num_learning_epochs = e] :
        m \in 1..MaxMiniBatches, e \in 1..MaxEpochs}

InitUpdate == \E s \in Shapes : InitWith(ReadyStorage(s, TRUE), SweepConfigs)

NextUpdate ==
    /\ \/ Update
       \/ /\ upd.pc = "loop"
          /\ \E perm \in IF gen.started
                          THEN {<<>>}
                          ELSE PermInputs(PermutationSize(storage, gen.num_mini_batches)),
                losses \in LossInputs :
                UpdateMiniBatch(perm, Zero, losses)
       \/ UpdateReturn
    /\ UNCHANGED <<runner, obj>>

SpecUpdate == InitUpdate /\ [][NextUpdate]_vars

-----------------------------------------------------------------------------
(* update() under the learning-rate schedules *)

\* the mean KL of a minibatch against desired_kl = 0.01: not a number,
\* negative, zero, inside the lower band, on its edge (0.005), between the
\* bands, on the upper edge (0.02) and above it
KLInputs ==
    {NaN, <<-1, 1000>>, Zero, <<1, 400>>, <<1, 200>>, <<1, 100>>, <<1, 50>>, <<1, 10>>}

\* learning rates next to the floor, in the middle and at the ceiling
LearningRateInputs == {<<1, 50000>>, <<1, 1000>>, <<1, 100>>}

\* (num_mini_batches, num_learning_epochs)
ScheduleSweeps == {<<1, 1>>, <<2, 2>>}

\* the optimizer built with a schedule, a target KL and a learning rate
ScheduleConfigs ==
    {[DefaultPPO EXCEPT !.num_mini_batches = w[1], !.num_learning_epochs = w[2],
                        !.schedule = k[1], !.desired_kl = k[2],
                        !.learning_rate = lr, !.optimizer_lr = lr] :
        w \in ScheduleSweeps,
        k \in {<<"adaptive", <<1, 100>>>>, <<"adaptive", None>>, <<"fixed", <<1, 100>>>>},
        lr \in LearningRateInputs}

InitSchedule ==
    \E s \in {x \in Shapes : x[1] * x[2] = 2} :
        InitWith(ReadyStorage(s, TRUE), ScheduleConfigs)

NextSchedule ==
    /\ \/ Update
       \/ /\ upd.pc = "loop"
          /\ \E perm \in IF gen.started
                          THEN {<<>>}
                          ELSE PermInputs(PermutationSize(storage, gen.num_mini_batches)),
                kl_mean \in KLInputs, losses \in {CHOOSE l \in LossInputs : TRUE} :
                UpdateMiniBatch(perm, kl_mean, losses)
       \/ UpdateReturn
    /\ UNCHANGED <<runner, obj>>

SpecSchedule == InitSchedule /\ [][NextSchedule]_vars

-----------------------------------------------------------------------------
(* update_class_from_dict applied to configuration objects *)

\* the items, in order, whose value is given
Given(options) == SelectSeq(options, LAMBDA o : o[2] # <<>>)

\* objects with attributes a, b, sub and __doc__, each there or not; sub is an
\* object with attributes x and y
ObjectInputs ==
    {Object(Given(<<<<"a", a>>, <<"b", b>>, <<"sub", sub>>, <<"__doc__", doc>>>>)) :
        a \in {<<>>, PyNone, Prim(1)},
        b \in {<<>>, Prim(1)},
        sub \in {<<>>, Object(<<>>), Object(<<<<"x", Prim(1)>>>>),
                 Object(<<<<"x", Prim(1)>>, <<"y", Prim(1)>>>>)},
        doc \in {<<>>, Prim(0)}}

\* dicts with keys a, b and sub, each there or not
DictInputs ==
    {Dict(Given(<<<<"a", a>>, <<"b", b>>, <<"sub", sub>>>>)) :
        a \in {<<>>, Prim(2), Dict(<<<<"x", Prim(2)>>>>)},
        b \in {<<>>, Prim(2)},
        sub \in {<<>>, Prim(2), Dict(<<>>), Dict(<<<<"x", Prim(2)>>>>)}}

InitHelpers ==
    /\ InitOptimizer(NewStorage(1, 1, FALSE), {DefaultPPO})
    /\ runner = NoRunner
    /\ obj \in ObjectInputs

NextHelpers ==
    \E dict_ \in DictInputs, strict \in BOOLEAN : UpdateClassFromDictCall(dict_, strict)

SpecHelpers == InitHelpers /\ [][NextHelpers]_vars

-----------------------------------------------------------------------------
(* The rollout protocol: T cycles of act and process_env_step, then
   compute_returns, then update, again and again.  The loop counts its own
   cycles in runner.i; num_steps_per_env is the T the storage was built with. *)

\* the observations of the protocol's cycles: the noiseless act input
RolloutActInputs(n) == {a \in ActInputs(n) : \A k \in Envs(n) : a.noise[k] = 0}

\* the simulator's steps of the protocol: one without a time_outs entry and
\* one that ends every environment on a time-out
RolloutStepInputs(n) ==
    {e \in StepInputs(n) :
        "time_outs" \in DOMAIN e.infos => \A k \in Envs(n) : e.infos.time_outs[k] = 1}

\* the privileged observation after the last step of a rollout
LastObsInputs(n) == {[k \in Envs(n) |-> k]}

RolloutConfigs ==
    {[DefaultPPO EXCEPT !.num_mini_batches = w[1], !.num_learning_epochs = w[2]] :
        w \in ScheduleSweeps}

InitRollout ==
    /\ \E s \in Shapes : InitOptimizer(NewStorage(s[2], s[1], TRUE), RolloutConfigs)
    /\ runner = [pc |-> "act", i |-> 0]
    /\ obj = None

RunnerAct ==
    /\ runner.pc = "act"
    /\ \E a \in RolloutActInputs(N) : Act(a.obs, a.critic_obs, a.noise)
    /\ runner' = [runner EXCEPT !.pc = "step"]

RunnerStep ==
    /\ runner.pc = "step"
    /\ \E e \in RolloutStepInputs(N) :
          ProcessEnvStep(e.rewards, e.dones, e.infos, e.next_critic_obs)
    /\ runner' = [pc |-> IF runner.i + 1 < T THEN "act" ELSE "returns",
                  i |-> runner.i + 1]

RunnerComputeReturns ==
    /\ runner.pc = "returns"
    /\ \E last_critic_obs \in LastObsInputs(N) : PPOComputeReturns(last_critic_obs)
    /\ runner' = [runner EXCEPT !.pc = "update"]

RunnerUpdate ==
    /\ runner.pc = "update"
    /\ \/ Update
       \/ /\ upd.pc = "loop"
          /\ \E perm \in IF gen.started
                          THEN {<<>>}
                          ELSE PermInputs(PermutationSize(storage, gen.num_mini_batches)),
                losses \in {CHOOSE l \in LossInputs : TRUE} :
                UpdateMiniBatch(perm, Zero, losses)
    /\ UNCHANGED runner

RunnerUpdateReturn ==
    /\ runner.pc = "update"
    /\ UpdateReturn
    /\ runner' = [pc |-> "act", i |-> 0]

NextRollout ==
    /\ \/ RunnerAct
       \/ RunnerStep
       \/ RunnerComputeReturns
       \/ RunnerUpdate
       \/ RunnerUpdateReturn
    /\ UNCHANGED obj

\* the condition under which the loop can take its next step: no exception
\* has ended it, and the guard of the step at its position holds
RunnerEnabled ==
    /\ err = "none"
    /\ \/ runner.pc \in {"act", "step", "returns"}
       \/ /\ runner.pc = "update"
          /\ \/ upd.pc # "loop" /\ (call.op = "update" => call.n < MaxRepeat)
             \/ upd.pc = "loop" /\ (IF gen.started THEN gen.epoch ELSE 0) < gen.num_epochs
             \/ upd.pc = "loop" /\ gen.started /\ gen.epoch >= gen.num_epochs

\* the loop is sequential code: it goes on from every position where it can.
\* This is weak fairness of NextRollout with its enabling condition written
\* out as RunnerEnabled.
RunnerGoesOn == []<>(~RunnerEnabled) \/ []<><<NextRollout>>_vars

SpecRollout == InitRollout /\ [][NextRollout]_vars /\ RunnerGoesOn

-----------------------------------------------------------------------------
(* The storage of an earlier rollout, cleared and filled again in part *)

\* the transition of the new rollout: its cells differ from every cell of the
\* earlier one
ReuseTransitions(n) ==
    {tr \in TransitionInputs(n) :
        /\ tr.observations[1] = 6 /\ tr.rewards[1] = One
        /\ \A k \in Envs(n) : tr.dones[k] = 0}

\* the arguments of compute_returns in the new rollout
ReuseLastValues(n) == [k \in Envs(n) |-> One]
ReuseGamma == <<1, 2>>
ReuseLam == <<1, 2>>

InitReuse ==
    \E s \in Shapes : InitWith(ReadyStorage(s, TRUE), {DefaultPPO})

NextReuse ==
    /\ \/ StorageClear
       \/ \E tr \in ReuseTransitions(N) : StorageAddTransitions(tr)
       \/ StorageComputeReturns(ReuseLastValues(N), ReuseGamma, ReuseLam)
       \/ \E m \in 1..2 : StorageMiniBatchGenerator(m, 1)
       \/ /\ gen.active
          /\ \E perm \in IF gen.started
                          THEN {<<>>}
                          ELSE PermInputs(PermutationSize(storage, gen.num_mini_batches)) :
                GeneratorNext(perm)
    /\ UNCHANGED <<runner, obj>>

SpecReuse == InitReuse /\ [][NextReuse]_vars

-----------------------------------------------------------------------------
(* Storage fields *)

\* storage tensor written by add_transitions |-> the Transition field copied
Source ==
    [observations |-> "observations",
     privileged_observations |-> "critic_observations",
     next_privileged_observations |-> "next_critic_observations",
     actions |-> "actions", rewards |-> "rewards", dones |-> "dones",
     values |-> "values", actions_log_prob |-> "actions_log_prob",
     mu |-> "action_mean", sigma |-> "action_sigma"]

WrittenFields == DOMAIN Source
ComputedFields == {"returns", "advantages"}

\* every row of tensor f other than Python row r is the same before and after
OtherRowsKept(before, after, f, r) ==
    \/ before[f] = None /\ after[f] = None
    \/ /\ before[f] # None
       /\ Len(after[f]) = Len(before[f])
       /\ \A t \in 1..Len(before[f]) : t # r + 1 => after[f][t] = before[f][t]

-----------------------------------------------------------------------------
(* C1, C2: the step counter and the rows written by add_transitions *)

StepInRange == storage.step \in 0..T

AddWritesRowStep ==
    (call'.op = "add_transitions" /\ err' = "none") =>
        /\ storage'.step = storage.step + 1
        /\ \A f \in WrittenFields :
              /\ OtherRowsKept(storage, storage', f, storage.step)
              /\ storage[f] # None =>
                    storage'[f][storage.step + 1] = call'.transition[Source[f]]
        /\ \A f \in ComputedFields : storage'[f] = storage[f]

\* C1: 0 <= step <= T always; each successful add_transitions writes the
\* transition into the row whose index is the step before the call, leaves
\* every other row of every field as it was, and adds one to step.
C1_StepAndRow == []StepInRange /\ [][AddWritesRowStep]_vars

\* a buffer of two environments filled to its horizon of at least two rows
C1_Witness ==
    /\ call.op = "add_transitions" /\ err = "none"
    /\ N = 2 /\ T >= 2 /\ storage.step = T
    /\ storage.privileged_observations # None
    /\ storage.observations[1] # storage.observations[2]

ClearResets == call'.op = "clear" => storage'.step = 0

OverflowRaises ==
    (call'.op = "add_transitions" /\ storage.step = T) =>
        /\ err' = "AssertionError"
        /\ storage' = storage

\* C2: clear() after T add_transitions calls sets step to 0; one more
\* add_transitions on the full buffer raises AssertionError and changes
\* neither step nor any stored row.
C2_ClearAndOverflow == [][ClearResets /\ OverflowRaises]_vars

\* the (T+1)-th add_transitions was made on a full buffer
C2_Witness ==
    /\ err = "AssertionError" /\ call.op = "add_transitions"
    /\ storage.step = T /\ T >= 2

-----------------------------------------------------------------------------
(* C10: time-out bootstrapping in process_env_step *)

TimedOut(infos, i) == "time_outs" \in DOMAIN infos /\ infos.time_outs[i] = 1

RecordedReward ==
    (call'.op = "process_env_step" /\ err' = "none") =>
        \A i \in Envs(N) :
            storage'.rewards[storage.step + 1][i] =
                IF TimedOut(call'.infos, i)
                THEN RAdd(R(call'.rewards[i]), RMul(ppo.gamma, transition.values[i]))
                ELSE R(call'.rewards[i])

\* C10: the reward process_env_step records for environment i is
\* rewards[i] + gamma * value[i] when infos flags a time-out for i, and
\* rewards[i] itself when the flag is clear or infos has no time_outs entry;
\* value[i] is what the act of the same cycle left in the Transition.
C10_TimeOutBootstrap == [][RecordedReward]_vars

\* one step recorded with the time-out flag clear for the first environment
\* and set for the second
C10_Witness ==
    /\ call.op = "process_env_step" /\ err = "none" /\ N = 2
    /\ "time_outs" \in DOMAIN call.infos
    /\ call.infos.time_outs = <<0, 1>>
    /\ storage.step >= 1
    /\ storage.rewards[storage.step][2] # R(call.rewards[2])
    /\ storage.rewards[storage.step][1] = R(call.rewards[1])

-----------------------------------------------------------------------------
(* C3-C6: compute_returns *)

AfterComputeReturns == call.op = "compute_returns"

\* The GAE(lambda) recursion as the claim states it: A_T = 0 and, for Python
\* index t < T, A_t = delta_t + (1 - done[t]) * gamma * lam * A_{t+1}.
RECURSIVE RefAdvantage(_, _, _, _, _, _)
RefAdvantage(st, t, n, last_values, gamma, lam) ==
    IF t = st.num_transitions_per_env
    THEN Zero
    ELSE LET not_done == R(1 - st.dones[t + 1][n])
             next_value == IF t = st.num_transitions_per_env - 1
                           THEN last_values[n]
                           ELSE st.values[t + 2][n]
             delta == RSub(RAdd(st.rewards[t + 1][n],
                                RMul(not_done, RMul(gamma, next_value))),
                           st.values[t + 1][n])
         IN  RAdd(delta,
                  RMul(not_done,
                       RMul(RMul(gamma, lam),
                            RefAdvantage(st, t + 1, n, last_values, gamma, lam))))

\* C3: after compute_returns(last_values, gamma, lam), returns[t] is
\* A_t + values[t] for every environment and every t, with A_t the GAE
\* recursion over rewards, dones, values and last_values.
C3_ReturnsAreGAE ==
    AfterComputeReturns =>
        \A t \in 0..(T - 1), n \in Envs(N) :
            storage.returns[t + 1][n] =
                RAdd(RefAdvantage(storage, t, n, call.last_values, call.gamma, call.lam),
                     storage.values[t + 1][n])

\* three steps without a done, discounted, with a bootstrap value that
\* differs from the stored values
C3_Witness ==
    /\ AfterComputeReturns /\ T = 3
    /\ \A t \in 1..T : storage.dones[t][1] = 0
    /\ call.gamma = <<1, 2>> /\ call.lam = <<1, 2>>
    /\ call.last_values[1] = One /\ storage.values[2][1] = Zero
    /\ storage.values[3][1] = One
    /\ storage.returns[1][1] # storage.rewards[1][1]

\* C4: after compute_returns, a row t with done[t] = 1 has returns[t] equal to
\* reward[t], whatever gamma, lam, last_values, values[t+1] and the later rows
\* are; in particular in a single-step buffer.
C4_DoneRowReturnsReward ==
    AfterComputeReturns =>
        \A t \in 1..T, n \in Envs(N) :
            storage.dones[t][n] = 1 => storage.returns[t][n] = storage.rewards[t][n]

\* a done in the first of two rows of environment 1, followed by a row with a
\* reward and a value, while environment 2 runs on and bootstraps
C4_Witness ==
    /\ AfterComputeReturns /\ T = 2 /\ N = 2
    /\ storage.dones[1] = <<1, 0>> /\ storage.dones[2] = <<0, 0>>
    /\ storage.values[2] = <<One, One>> /\ storage.values[1] = <<One, One>>
    /\ call.last_values = <<One, One>> /\ call.gamma = One /\ call.lam = One
    /\ storage.returns[1][2] # storage.rewards[1][2]

AllAdvantages == Flatten(storage.advantages)

\* C5: after compute_returns on any buffer the call has not failed and the
\* advantages over all T*N entries have mean 0 (no entry is nan, and the
\* numerators sum to 0); with zero variance every advantage is 0.
C5_AdvantagesMeanZero ==
    AfterComputeReturns =>
        /\ err = "none"
        /\ \A k \in DOMAIN AllAdvantages : ~AllAdvantages[k].nan
        /\ SumSeq([k \in DOMAIN AllAdvantages |-> AllAdvantages[k].num]) = Zero
        /\ \A k \in DOMAIN AllAdvantages :
              AllAdvantages[k].var = Zero => AllAdvantages[k].num = Zero

RepeatLeavesOutputs ==
    (call'.op = "compute_returns" /\ call'.n >= 2) =>
        /\ storage'.returns = storage.returns
        /\ storage'.advantages = storage.advantages

\* C6: a second compute_returns call with the same last_values, gamma and lam
\* on unchanged rewards, dones and values leaves returns and advantages as
\* the first call left them.
C6_Idempotent == [][RepeatLeavesOutputs]_vars

\* the call was repeated on a buffer whose returns and advantages are not
\* all zero
C6_Witness ==
    /\ AfterComputeReturns /\ call.n = 2 /\ T * N >= 2
    /\ storage.returns[1][1] # Zero
    /\ ~AllAdvantages[1].nan /\ AllAdvantages[1].num # Zero

-----------------------------------------------------------------------------
(* C7-C9: mini_batch_generator *)

M == gen.num_mini_batches
E == gen.num_epochs
Range(seq) == {seq[j] : j \in DOMAIN seq}

\* the batches yielded in epoch e
EpochBatches(e) == {k \in DOMAIN yielded : yielded[k].epoch = e}

YieldCount ==
    /\ Len(yielded) <= M * E
    /\ gen.done => Len(yielded) = M * E

ChunkSize == \A k \in DOMAIN yielded : Len(yielded[k].batch_idx) = (T * N) \div M

EpochPartition ==
    \A e \in 0..(E - 1) :
        /\ \A k \in EpochBatches(e) :
              Cardinality(Range(yielded[k].batch_idx)) = Len(yielded[k].batch_idx)
        /\ \A k, l \in EpochBatches(e) :
              k # l => Range(yielded[k].batch_idx) \cap Range(yielded[l].batch_idx) = {}
        /\ Cardinality(EpochBatches(e)) = M =>
              UNION {Range(yielded[k].batch_idx) : k \in EpochBatches(e)} = 0..(T * N - 1)

\* every tensor of the batch last yielded holds, entry by entry, the cells
\* of its storage tensor at the flat indices of the same chunk
SameChunk ==
    yielded # <<>> =>
        LET idx == yielded[Len(yielded)].batch_idx
            cell(tensor, j) == tensor[(idx[j] \div N) + 1][(idx[j] % N) + 1]
            has_priv == storage.privileged_observations # None
        IN  \A j \in DOMAIN idx :
                /\ batch.obs_batch[j] = cell(storage.observations, j)
                /\ batch.critic_observations_batch[j] =
                        IF has_priv THEN cell(storage.privileged_observations, j)
                        ELSE cell(storage.observations, j)
                /\ batch.next_critic_observations_batch[j] =
                        IF has_priv THEN cell(storage.next_privileged_observations, j)
                        ELSE cell(storage.observations, j)
                /\ batch.actions_batch[j] = cell(storage.actions, j)
                /\ batch.target_values_batch[j] = cell(storage.values, j)
                /\ batch.advantages_batch[j] = cell(storage.advantages, j)
                /\ batch.returns_batch[j] = cell(storage.returns, j)
                /\ batch.old_actions_log_prob_batch[j] = cell(storage.actions_log_prob, j)
                /\ batch.old_mu_batch[j] = cell(storage.mu, j)
                /\ batch.old_sigma_batch[j] = cell(storage.sigma, j)

\* C7: when M divides T*N, mini_batch_generator(M, E) yields M*E batches and
\* then ends; each batch has (T*N)/M indices; the M batches of an epoch are
\* pairwise disjoint and together are 0..T*N-1; and every tensor of a batch is
\* sliced by the same index chunk.
C7_EpochsPartitionIndices ==
    (gen.started /\ (T * N) % M = 0) =>
        YieldCount /\ ChunkSize /\ EpochPartition /\ SameChunk

\* a generator of two minibatches and two epochs over four samples, run to
\* its end
C7_Witness ==
    /\ gen.done /\ M = 2 /\ E = 2 /\ T = 2 /\ N = 2
    /\ Len(yielded) = 4
    /\ yielded[1].batch_idx = <<3, 0>>

\* the epochs of which a batch has been yielded
EpochsBegun == {yielded[k].epoch : k \in DOMAIN yielded}

\* C8: with num_epochs >= 2 every epoch draws its own permutation: once
\* batches of k epochs have been yielded, randperm has been called k times.
C8_PermutationPerEpoch ==
    gen.started => gen.randperm_calls = Cardinality(EpochsBegun)

\* what the generator does instead: the i-th chunk is the same in every epoch
ChunksRepeatAcrossEpochs ==
    \A k, l \in DOMAIN yielded :
        yielded[k].i = yielded[l].i => yielded[k].batch_idx = yielded[l].batch_idx

\* C9: when num_mini_batches does not divide T*N the generator fails and
\* yields nothing.
C9_UnevenSplitFails ==
    (gen.started /\ (T * N) % M # 0) => (err # "none" /\ yielded = <<>>)

\* what the generator does instead: it runs, and in every epoch the flat
\* indices from M * ((T*N) div M) on are in no batch
UnevenSplitDropsSamples ==
    (gen.started /\ (T * N) % M # 0) =>
        /\ err = "none"
        /\ \A k \in DOMAIN yielded :
              \A x \in Range(yielded[k].batch_idx) : x < M * ((T * N) \div M)

-----------------------------------------------------------------------------
(* C11-C12: the sweep of update() and what it returns *)

NumUpdates == ppo.num_mini_batches * ppo.num_learning_epochs

UpdateReturns == upd.pc = "loop" /\ upd'.pc = "done"

SweepThenClear ==
    UpdateReturns =>
        /\ upd'.iterations = NumUpdates
        /\ upd'.estimator_updates = NumUpdates
        /\ upd'.optimizer_steps = NumUpdates
        /\ Len(yielded') = NumUpdates
        /\ storage'.step = 0

OneUpdateEach ==
    (upd.pc = "loop" /\ upd'.pc = "loop") =>
        /\ upd'.iterations = upd.iterations + 1
        /\ upd'.estimator_updates = upd.estimator_updates + 1
        /\ upd'.optimizer_steps = upd.optimizer_steps + 1
        /\ storage' = storage

\* C11: an update() call makes num_mini_batches * num_learning_epochs
\* minibatch iterations, each with one estimator update and one policy
\* optimizer step and none touching the storage, and then clears the storage:
\* step is 0 when update() returns.
C11_SweepThenClear == [][SweepThenClear /\ OneUpdateEach]_vars

\* the first update() on a full buffer of four samples has returned after a
\* sweep of three minibatches and two epochs
C11_Witness ==
    /\ upd.pc = "done" /\ call.op = "update" /\ call.n = 1
    /\ ppo.num_mini_batches = 3 /\ ppo.num_learning_epochs = 2
    /\ T * N = 4 /\ upd.iterations = 6 /\ storage.step = 0

\* the arithmetic mean of one loss over the minibatches of the sweep
MeanLoss(name) ==
    RDiv(SumSeq([k \in DOMAIN upd.losses |-> upd.losses[k][name]]),
         R(Len(upd.losses)))

\* C12: update() returns the means, over all num_mini_batches *
\* num_learning_epochs minibatches, of the value loss, the surrogate loss, the
\* estimation loss and the swap loss.
C12_ReturnsFourMeans ==
    upd.pc = "done" =>
        /\ Len(upd.losses) = NumUpdates
        /\ upd.result = <<MeanLoss("value_loss"), MeanLoss("surrogate_loss"),
                          MeanLoss("estimation_loss"), MeanLoss("swap_loss")>>

\* what update() returns instead: the means of the value and surrogate losses,
\* and the estimation and swap losses of the last minibatch
ReturnsLastEstimatorLosses ==
    upd.pc = "done" =>
        upd.result = <<MeanLoss("value_loss"), MeanLoss("surrogate_loss"),
                       upd.losses[Len(upd.losses)].estimation_loss,
                       upd.losses[Len(upd.losses)].swap_loss>>

-----------------------------------------------------------------------------
(* C13: the adaptive learning-rate schedule *)

MinibatchDone == upd.pc = "loop" /\ upd'.pc = "loop"

\* the rate the claim gives for a minibatch whose mean KL is kl
ClaimedRate(lr, kl, desired_kl) ==
    IF RLess(RMul(R(2), desired_kl), kl)
    THEN (IF RLess(RDiv(lr, <<3, 2>>), <<1, 100000>>)
          THEN <<1, 100000>> ELSE RDiv(lr, <<3, 2>>))
    ELSE IF RLess(Zero, kl) /\ RLess(kl, RDiv(desired_kl, R(2)))
    THEN (IF RLess(<<1, 100>>, RMul(lr, <<3, 2>>))
          THEN <<1, 100>> ELSE RMul(lr, <<3, 2>>))
    ELSE lr

InRateBand(lr) == ~RLess(lr, <<1, 100000>>) /\ ~RLess(<<1, 100>>, lr)

ScheduleFollowed ==
    MinibatchDone =>
        /\ Adaptive(ppo) =>
              ppo'.learning_rate =
                  ClaimedRate(ppo.learning_rate, upd'.kl_mean, ppo.desired_kl)
        /\ ppo.schedule = "fixed" => ppo'.learning_rate = ppo.learning_rate
        /\ ppo'.optimizer_lr = ppo'.learning_rate

\* C13: under the adaptive schedule a minibatch with mean KL above
\* 2 * desired_kl sets the rate to max(1e-5, lr / 1.5), one with
\* 0 < mean KL < desired_kl / 2 sets it to min(1e-2, lr * 1.5), and any other
\* leaves it; a rate that starts in [1e-5, 1e-2] stays there; under the fixed
\* schedule the rate never changes.
C13_AdaptiveRate ==
    /\ []InRateBand(ppo.learning_rate)
    /\ [][ScheduleFollowed]_vars
    /\ [][ppo.schedule = "fixed" => ppo'.learning_rate = ppo.learning_rate]_vars

\* the rate was lowered onto the floor by a minibatch of large KL
C13_Witness ==
    /\ upd.pc = "loop" /\ upd.iterations >= 2 /\ Adaptive(ppo)
    /\ upd.kl_mean = <<1, 10>>
    /\ ppo.learning_rate = <<1, 100000>>

\* the rate was raised onto the ceiling by a minibatch of small KL
RaisedToCeiling ==
    /\ upd.pc = "loop" /\ upd.iterations >= 2 /\ Adaptive(ppo)
    /\ upd.kl_mean = <<1, 400>>
    /\ ppo.learning_rate = <<1, 100>>
    /\ \E k \in DOMAIN upd.events : upd.events[k].name = "learning_rate"

-----------------------------------------------------------------------------
(* C14: the frame of get_statistics *)

OnlyLastDonesRow ==
    call'.op = "get_statistics" =>
        /\ \A n \in Envs(N) : storage'.dones[T][n] = 1
        /\ \A t \in 1..(T - 1) : storage'.dones[t] = storage.dones[t]
        /\ \A f \in (DOMAIN storage) \ {"dones"} : storage'[f] = storage[f]
        /\ <<transition', ppo', actor_critic', gen', batch'>> =
                <<transition, ppo, actor_critic, gen, batch>>

\* C14: get_statistics sets the done flags of the last row for every
\* environment and changes nothing else: the other rows of dones, the rewards,
\* every other buffer and step are as before.
C14_StatisticsFrame == [][OnlyLastDonesRow]_vars

\* get_statistics on a buffer of two rows and two environments whose last row
\* had a clear flag and whose first row has one: environment 1 is one
\* trajectory of length 2, environment 2 two of length 1
C14_Witness ==
    /\ call.op = "get_statistics" /\ T = 2 /\ N = 2
    /\ call.dones = <<<<0, 1>>, <<0, 0>>>>
    /\ storage.dones = <<<<0, 1>>, <<1, 1>>>>
    /\ call.result[1] = <<4, 3>>

-----------------------------------------------------------------------------
(* C15: update_class_from_dict and strict *)

AfterUpdateClass == call.op = "update_class_from_dict"

\* the attributes the call found on obj whose names are not keys of dict_
AbsentAttributes ==
    {a \in Keys(call.obj.items) : ~Dunder(a) /\ a \notin Keys(call.dict_.items)}

\* C15: update_class_from_dict removes the attributes of obj that are absent
\* from dict_ only when strict is true; with strict = False every attribute of
\* obj that is not a key of dict_ is kept, with its value.
C15_RemovesOnlyIfStrict ==
    AfterUpdateClass =>
        /\ call.strict =>
              \A a \in AbsentAttributes : a \notin Keys(obj.items)
        /\ ~call.strict =>
              \A a \in AbsentAttributes :
                  /\ a \in Keys(obj.items)
                  /\ GetItem(obj.items, a) = GetItem(call.obj.items, a)

\* what the function does instead: the absent attributes are removed whatever
\* strict is
RemovesAlways ==
    AfterUpdateClass => \A a \in AbsentAttributes : a \notin Keys(obj.items)

-----------------------------------------------------------------------------
(* C16: the Transition over one act / process_env_step cycle *)

ProcessReturned == call'.op = "process_env_step" /\ err' = "none"

\* the row that process_env_step wrote holds what the Transition held
RowFromTransition ==
    LET row == storage.step + 1
    IN  /\ storage'.observations[row] = transition.observations
        /\ storage'.actions[row] = transition.actions
        /\ storage'.values[row] = transition.values
        /\ storage'.actions_log_prob[row] = transition.actions_log_prob
        /\ storage'.mu[row] = transition.action_mean
        /\ storage'.sigma[row] = transition.action_sigma

\* what the Transition held is what the act just before produced from its
\* observations
TransitionFromAct ==
    LET dist == UpdateDistribution(call.obs)
    IN  /\ transition.observations = call.obs
        /\ transition.critic_observations = call.critic_obs
        /\ transition.values = Evaluate(call.critic_obs)
        /\ transition.action_mean = dist.mean
        /\ transition.action_sigma = dist.stddev
        /\ transition.actions_log_prob =
                [n \in DOMAIN call.obs |->
                    LogProb(transition.actions[n], dist.mean[n], dist.stddev[n])]

DrainedAfterStep ==
    (call.op = "act" /\ ProcessReturned) =>
        /\ \A f \in DOMAIN transition' : transition'[f] = None
        /\ storage'.step = storage.step + 1
        /\ RowFromTransition
        /\ TransitionFromAct

\* C16: when process_env_step follows act and returns normally, every
\* Transition field is None again, step has grown by one, and the row written
\* holds the action, value, log-prob, mean and std that the act of the same
\* cycle produced.
C16_TransitionDrained == [][DrainedAfterStep]_vars

\* two cycles, the first on the first act input and the second on the other:
\* both rows written and the Transition empty
C16_Witness ==
    /\ call.op = "process_env_step" /\ err = "none" /\ N = 2
    /\ storage.step = 2
    /\ transition.values = None /\ transition.actions = None
    /\ storage.observations[1] = <<11, 12>>
    /\ storage.observations[2] = <<11, 11>>
    /\ storage.values[2] = Evaluate(<<1, 1>>)

-----------------------------------------------------------------------------
(* C17: the order of the calls within one minibatch iteration *)

\* the positions of the calls named name among the events of the iteration
Positions(events, name) == {k \in DOMAIN events : events[k].name = name}

Before(events, first, second) ==
    \A i \in Positions(events, first), j \in Positions(events, second) : i < j

BodyInOrder ==
    MinibatchDone =>
        LET ev == upd'.events
        IN  /\ Cardinality(Positions(ev, "estimator.update")) = 1
            /\ Cardinality(Positions(ev, "optimizer.step")) = 1
            /\ Cardinality(Positions(ev, "backward")) = 1
            /\ Cardinality(Positions(ev, "clip_grad_norm_")) = 1
            /\ Cardinality(Positions(ev, "learning_rate")) = (IF Adaptive(ppo) THEN 1 ELSE 0)
            /\ Before(ev, "learning_rate", "estimator.update")
            /\ Before(ev, "estimator.update", "backward")
            /\ Before(ev, "backward", "clip_grad_norm_")
            /\ Before(ev, "clip_grad_norm_", "optimizer.step")
            /\ \A k \in Positions(ev, "estimator.update") :
                  ev[k].lr = ppo'.learning_rate
            /\ Adaptive(ppo) =>
                  ppo'.learning_rate =
                      ClaimedRate(ppo.learning_rate, upd'.kl_mean, ppo.desired_kl)

\* C17: in every minibatch iteration of update() the learning-rate adjustment
\* (under the adaptive schedule) comes first, then the estimator's update,
\* called with the adjusted rate, then the backward pass, the gradient-norm
\* clipping and the policy optimizer step; the estimator update and the
\* optimizer step are made once each.
C17_BodyOrder == [][BodyInOrder]_vars

\* an iteration whose KL was large: the rate 1e-3 was lowered to 1e-3 / 1.5
\* and the estimator's update, the second call, was made with the new rate
C17_Witness ==
    /\ upd.pc = "loop" /\ upd.iterations = 1 /\ Adaptive(ppo)
    /\ upd.kl_mean = <<1, 10>>
    /\ Len(upd.events) >= 2
    /\ upd.events[1] = Event("learning_rate", <<1, 1500>>)
    /\ upd.events[2] = Event("estimator.update", <<1, 1500>>)
    /\ ppo.optimizer_lr = <<1, 1500>>

-----------------------------------------------------------------------------
(* C18: the storage over the rollout protocol *)

\* step moves along EMPTY -> FILLING -> FULL and from FULL back to EMPTY only
StepCycle ==
    \/ storage'.step = storage.step
    \/ storage'.step = storage.step + 1 /\ storage.step < T
    \/ storage'.step = 0 /\ storage.step = T /\ UpdateReturns

\* compute_returns is called on a full buffer
ReturnsWhenFull ==
    (call'.op = "compute_returns" /\ call.op # "compute_returns") => storage.step = T

\* update() starts on a full buffer whose returns were just computed (READY),
\* and every minibatch of its sweep finds the buffer full
SweepWhenReady ==
    /\ (upd.pc # "loop" /\ upd'.pc = "loop") =>
            (storage.step = T /\ call.op = "compute_returns")
    /\ MinibatchDone => storage.step = T

\* C18: under the rollout protocol, repeated without end, step goes
\* 0 -> 1 -> ... -> T -> 0; compute_returns and the minibatch sweep happen
\* only at step = T; no call fails, so the overflow is never reached; and
\* every rollout brings the storage back to step = 0.
C18_RolloutCycle ==
    /\ [](StepInRange /\ err = "none")
    /\ [][StepCycle /\ ReturnsWhenFull /\ SweepWhenReady]_vars
    /\ (storage.step # 0) ~> (storage.step = 0)
    /\ (storage.step = 0) ~> (storage.step = T)

\* the second rollout has begun: update() has returned and one step of the
\* next rollout is stored over a buffer of three rows
C18_Witness ==
    /\ runner.pc = "act" /\ runner.i = 1 /\ storage.step = 1
    /\ upd.pc = "done" /\ T = 3 /\ N = 1
    /\ storage.returns[3][1] # Zero

-----------------------------------------------------------------------------
(* C19: a buffer reused after clear() *)

\* clear() leaves every tensor and size as it is and sets step to 0
ClearKeepsRows ==
    call'.op = "clear" =>
        /\ storage'.step = 0
        /\ \A f \in DOMAIN storage \ {"step"} : storage'[f] = storage[f]

RawAdvantage(t, n) == RSub(storage.returns[t][n], storage.values[t][n])
AllRawAdvantages ==
    [k \in 1..(T * N) |-> RawAdvantage(((k - 1) \div N) + 1, ((k - 1) % N) + 1)]

\* after compute_returns the returns of all T rows are the GAE recursion over
\* all T rows, and the advantages are centred on the mean of all T * N cells
\* and scaled by their variance, wherever step is
ReturnsOverAllRows ==
    AfterComputeReturns =>
        /\ \A t \in 0..(T - 1), n \in Envs(N) :
              storage.returns[t + 1][n] =
                  RAdd(RefAdvantage(storage, t, n, call.last_values, call.gamma, call.lam),
                       storage.values[t + 1][n])
        /\ T * N > 1 =>
              LET mean == RDiv(SumSeq(AllRawAdvantages), R(T * N))
                  squares == [k \in 1..(T * N) |->
                                RMul(RSub(AllRawAdvantages[k], mean),
                                     RSub(AllRawAdvantages[k], mean))]
              IN  \A t \in 1..T, n \in Envs(N) :
                      /\ storage.advantages[t][n].num = RSub(RawAdvantage(t, n), mean)
                      /\ storage.advantages[t][n].var =
                              RDiv(SumSeq(squares), R(T * N - 1))
                      /\ ~storage.advantages[t][n].nan

\* a sweep that divides evenly has yielded every flat index of the T * N
\* cells when it ends, and the batch just yielded holds the cells of the
\* storage at its indices, wherever step is
SweepOverAllRows ==
    /\ (gen.done /\ (T * N) % M = 0) =>
            UNION {Range(yielded[k].batch_idx) : k \in DOMAIN yielded} = 0..(T * N - 1)
    /\ (call.op = "next" /\ ~gen.done) =>
            LET idx == yielded[Len(yielded)].batch_idx
                cell(tensor, j) == tensor[(idx[j] \div N) + 1][(idx[j] % N) + 1]
            IN  \A j \in DOMAIN idx :
                    /\ batch.obs_batch[j] = cell(storage.observations, j)
                    /\ batch.actions_batch[j] = cell(storage.actions, j)
                    /\ batch.target_values_batch[j] = cell(storage.values, j)
                    /\ batch.returns_batch[j] = cell(storage.returns, j)

\* C19: clear() changes only step and keeps every stored row; compute_returns
\* and mini_batch_generator process all T rows whatever step is, so with
\* fewer than T transitions added since the last clear() the rows from step
\* on, written in the earlier rollout, are part of the returns, of the
\* advantage normalisation and of the minibatches.
C19_StaleRowsProcessed ==
    /\ [][ClearKeepsRows]_vars
    /\ [](ReturnsOverAllRows /\ SweepOverAllRows)

\* two rows of which only the first was written since clear(): the second
\* still holds the earlier rollout's observation, its return was computed
\* again with the new arguments, the return of the first row is the recursion
\* through the second, and the batch just yielded holds the second row
C19_Witness ==
    /\ T = 2 /\ N = 1 /\ storage.step = 1
    /\ storage.observations[1][1] = 6 /\ storage.observations[2][1] = 21
    /\ call.op = "next" /\ ~gen.done /\ M = 1
    /\ \E j \in DOMAIN batch.obs_batch :
          batch.obs_batch[j] = 21 /\ batch.returns_batch[j] = storage.returns[2][1]
    /\ storage.returns[2][1] # R(2)
    /\ storage.returns[1][1] =
          RAdd(RefAdvantage(storage, 0, 1, ReuseLastValues(N), ReuseGamma, ReuseLam),
               storage.values[1][1])

====
